---- MODULE Spec2Model ----
(***************************************************************************)
(* The WhatsApp webhook bridge of src/app.py: one POST /webhook delivery   *)
(* is normalised (extract_message_data), its media is fetched              *)
(* (download_media_file), a reply is composed                              *)
(* (get_openai_response_with_media) and the reply and the attachment are   *)
(* sent back (send_whatsapp_message, send_whatsapp_media,                  *)
(* send_whatsapp_location).                                                *)
(*                                                                         *)
(* Python values: a dict is a function on its keys, a list is a sequence,  *)
(* a str that the code takes apart (strip, slice, len, join) is a sequence *)
(* of one-character strings, an opaque str (an id, a phone number, a type  *)
(* tag) is a string.  None is the record None where a dict or a wrapped    *)
(* value may stand, and the string NoneStr where an opaque str may stand.  *)
(***************************************************************************)
EXTENDS Naturals, Integers, Sequences, FiniteSets, TLC

VARIABLES pc, request, message_data, ai_response, text_success,
          media_success, response, calls

vars == <<pc, request, message_data, ai_response, text_success,
          media_success, response, calls>>

-----------------------------------------------------------------------------
(* Bounds of the model *)

\* the longest contacts list of an inbound contacts message
MaxContacts == 2
\* the length of the longest reply the AI service returns
LongReplyLen == 150
\* the number of bytes of the largest media file
MaxFileBytes == 3

-----------------------------------------------------------------------------
(* Python values *)

None == [py_none |-> TRUE]
NoneStr == "<None>"

\* dict.get(k, default)
Get(d, k, default) == IF k \in DOMAIN d THEN d[k] ELSE default

\* the truth value of an opaque str or None
TruthyStr(s) == s # NoneStr /\ s # ""

Whitespace == {" ", "\t", "\n"}

RECURSIVE lstrip(_)
lstrip(s) == IF s # <<>> /\ Head(s) \in Whitespace THEN lstrip(Tail(s)) ELSE s

RECURSIVE rstrip(_)
rstrip(s) ==
    IF s # <<>> /\ s[Len(s)] \in Whitespace
    THEN rstrip(SubSeq(s, 1, Len(s) - 1))
    ELSE s

\* str.strip()
strip(s) == rstrip(lstrip(s))

\* sep.join(items)
RECURSIVE join(_, _)
join(sep, items) ==
    IF items = <<>> THEN <<>>
    ELSE IF Len(items) = 1 THEN items[1]
    ELSE items[1] \o sep \o join(sep, Tail(items))

Digits == <<"0", "1", "2", "3", "4", "5", "6", "7", "8", "9">>

\* str(n) of a natural number, as an f-string formats it
RECURSIVE str_int(_)
str_int(n) ==
    IF n < 10 THEN <<Digits[n + 1]>>
    ELSE str_int(n \div 10) \o <<Digits[(n % 10) + 1]>>

\* s[:n]
slice_to(s, n) == SubSeq(s, 1, IF Len(s) < n THEN Len(s) ELSE n)

\* str(x) of an opaque value, as an f-string formats it
str_of(x) ==
    CASE x = NoneStr -> <<"N", "o", "n", "e">>
      [] x = "video" -> <<"v", "i", "d", "e", "o">>
      [] x = "reaction" -> <<"r", "e", "a", "c", "t", "i", "o", "n">>
      [] OTHER -> <<x>>

-----------------------------------------------------------------------------
(* String literals of the source *)

\* src/app.py:396 (a character outside ASCII is written as its code point, U+xxxx)
STICKER_TEXT ==
    <<"U+1F4CD", " ", "U", "s", "u", "a", "r", "i", "o", " ", "e", "n", "v", "i", "U+00F3", " ", "u", "n", " ", "s", "t", "i", "c", "k", "e", "r">>
\* src/app.py:406 (a character outside ASCII is written as its code point, U+xxxx)
IMAGE_TEXT ==
    <<"U+1F4F7", " ", "U", "s", "u", "a", "r", "i", "o", " ", "e", "n", "v", "i", "U+00F3", " ", "u", "n", "a", " ", "i", "m", "a", "g", "e", "n">>
\* src/app.py:416 (a character outside ASCII is written as its code point, U+xxxx)
AUDIO_TEXT ==
    <<"U+1F3B5", " ", "U", "s", "u", "a", "r", "i", "o", " ", "e", "n", "v", "i", "U+00F3", " ", "u", "n", " ", "a", "u", "d", "i", "o">>
\* src/app.py:425 (a character outside ASCII is written as its code point, U+xxxx)
DOCUMENT_TEXT ==
    <<"U+1F4C4", " ", "U", "s", "u", "a", "r", "i", "o", " ", "e", "n", "v", "i", "U+00F3", " ", "u", "n", " ", "d", "o", "c", "u", "m", "e", "n", "t", "o">>
\* src/app.py:438 (a character outside ASCII is written as its code point, U+xxxx)
LOCATION_TEXT ==
    <<"U+1F4CD", " ", "U", "s", "u", "a", "r", "i", "o", " ", "c", "o", "m", "p", "a", "r", "t", "i", "U+00F3", " ", "u", "b", "i", "c", "a", "c", "i", "U+00F3", "n">>
\* src/app.py:456 (a character outside ASCII is written as its code point, U+xxxx)
CONTACTS_TEXT_HEAD ==
    <<"U+1F464", " ", "U", "s", "u", "a", "r", "i", "o", " ", "c", "o", "m", "p", "a", "r", "t", "i", "U+00F3", " ">>
\* src/app.py:456  ' contacto(s)'
CONTACTS_TEXT_TAIL ==
    <<" ", "c", "o", "n", "t", "a", "c", "t", "o", "(", "s", ")">>
\* src/app.py:464 (a character outside ASCII is written as its code point, U+xxxx)
UNKNOWN_TEXT_HEAD ==
    <<"U+2753", " ", "U", "s", "u", "a", "r", "i", "o", " ", "e", "n", "v", "i", "U+00F3", " ", "u", "n", " ", "m", "e", "n", "s", "a", "j", "e", " ", "d", "e", " ", "t", "i", "p", "o", ":", " ">>
\* src/app.py:460  'Sin nombres'
NO_NAMES ==
    <<"S", "i", "n", " ", "n", "o", "m", "b", "r", "e", "s">>
\* src/app.py:460  ', '
NAME_SEPARATOR ==
    <<",", " ">>
\* src/app.py:429  'Archivo sin nombre'
DEFAULT_FILENAME ==
    <<"A", "r", "c", "h", "i", "v", "o", " ", "s", "i", "n", " ", "n", "o", "m", "b", "r", "e">>
\* src/app.py:570  'documento'
FALLBACK_FILENAME ==
    <<"d", "o", "c", "u", "m", "e", "n", "t", "o">>
\* src/app.py:561 (a character outside ASCII is written as its code point, U+xxxx)
IMAGE_CAPTION_HEAD ==
    <<"R", "e", "c", "i", "b", "U+00ED", " ", "e", "s", "t", "a", " ", "i", "m", "a", "g", "e", "n", ".", " ">>
\* src/app.py:561  '...'
ELLIPSIS ==
    <<".", ".", ".">>
\* src/app.py:571 (a character outside ASCII is written as its code point, U+xxxx)
DOCUMENT_CAPTION_HEAD ==
    <<"R", "e", "c", "i", "b", "U+00ED", " ", "e", "s", "t", "e", " ", "d", "o", "c", "u", "m", "e", "n", "t", "o", ":", " ">>
\* src/app.py:171 (a character outside ASCII is written as its code point, U+xxxx)
APOLOGY ==
    <<"L", "o", " ", "s", "i", "e", "n", "t", "o", ",", " ", "t", "e", "n", "g", "o", " ", "p", "r", "o", "b", "l", "e", "m", "a", "s", " ", "p", "a", "r", "a", " ", "p", "r", "o", "c", "e", "s", "a", "r", " ", "t", "u", " ", "s", "o", "l", "i", "c", "i", "t", "u", "d", " ", "a", "h", "o", "r", "a", ".", " ", "P", "o", "r", " ", "f", "a", "v", "o", "r", " ", "i", "n", "t", "e", "n", "t", "a", " ", "d", "e", " ", "n", "u", "e", "v", "o", " ", "m", "U+00E1", "s", " ", "t", "a", "r", "d", "e", ".">>
\* src/app.py:129  'data:image/jpeg;base64,'
DATA_URL_HEAD ==
    <<"d", "a", "t", "a", ":", "i", "m", "a", "g", "e", "/", "j", "p", "e", "g", ";", "b", "a", "s", "e", "6", "4", ",">>
\* src/app.py:90  'ABCDEFGHIJKLMNOPQRSTUVWXYZabcdefghijklmnopqrstuvwxyz0123456789+/'
B64_ALPHABET ==
    <<"A", "B", "C", "D", "E", "F", "G", "H", "I", "J", "K", "L", "M", "N", "O", "P", "Q", "R", "S", "T", "U", "V", "W", "X", "Y", "Z", "a", "b", "c", "d", "e", "f", "g", "h", "i", "j", "k", "l", "m", "n", "o", "p", "q", "r", "s", "t", "u", "v", "w", "x", "y", "z", "0", "1", "2", "3", "4", "5", "6", "7", "8", "9", "+", "/">>

-----------------------------------------------------------------------------
(* extract_message_data: the raw webhook payload to the uniform record.    *)
(* The function body is one try block: an attribute or index error on a    *)
(* malformed level (a null where a dict is expected) is caught and the     *)
(* result is None.                                                         *)

sticker_media(message) ==
    LET sticker_data == Get(message, "sticker", <<>>) IN
    [type |-> "sticker",
     id |-> Get(sticker_data, "id", NoneStr),
     mime_type |-> Get(sticker_data, "mime_type", NoneStr),
     animated |-> Get(sticker_data, "animated", FALSE)]

image_media(message) ==
    LET image_data == Get(message, "image", <<>>) IN
    [type |-> "image",
     id |-> Get(image_data, "id", NoneStr),
     mime_type |-> Get(image_data, "mime_type", NoneStr),
     caption |-> Get(image_data, "caption", <<>>)]

\* a copy of the image branch left with the image tag
audio_media_tagged_image(message) ==
    LET audio_data == Get(message, "audio", <<>>) IN
    [type |-> "image",
     id |-> Get(audio_data, "id", NoneStr),
     mime_type |-> Get(audio_data, "mime_type", NoneStr)]

audio_media(message) ==
    LET audio_data == Get(message, "audio", <<>>) IN
    [type |-> "audio",
     id |-> Get(audio_data, "id", NoneStr),
     mime_type |-> Get(audio_data, "mime_type", NoneStr)]

document_media(message) ==
    LET doc_data == Get(message, "document", <<>>) IN
    [type |-> "document",
     id |-> Get(doc_data, "id", NoneStr),
     filename |-> Get(doc_data, "filename", DEFAULT_FILENAME),
     mime_type |-> Get(doc_data, "mime_type", NoneStr),
     caption |-> Get(doc_data, "caption", <<>>)]

\* the default of an absent coordinate: the str "N/A"
NOT_AVAILABLE == [str |-> <<"N", "/", "A">>]

location_media(message) ==
    LET location == Get(message, "location", <<>>) IN
    [type |-> "location",
     latitude |-> Get(location, "latitude", NOT_AVAILABLE),
     longitude |-> Get(location, "longitude", NOT_AVAILABLE),
     name |-> Get(location, "name", <<>>),
     address |-> Get(location, "address", <<>>)]

\* the joined name without the strip()
contact_full_name_unstripped(contact) ==
    LET name == Get(contact, "name", <<>>) IN
    Get(name, "first_name", <<>>) \o <<" ">> \o Get(name, "last_name", <<>>)

\* f"{first_name} {last_name}".strip()
contact_full_name(contact) ==
    LET name == Get(contact, "name", <<>>) IN
    strip(Get(name, "first_name", <<>>) \o <<" ">> \o Get(name, "last_name", <<>>))

\* the for loop over contacts, contact_names being the list built so far
RECURSIVE collect_contact_names(_, _)
collect_contact_names(contacts, contact_names) ==
    IF contacts = <<>> THEN contact_names
    ELSE LET full_name == contact_full_name(Head(contacts)) IN
         collect_contact_names(
             Tail(contacts),
             IF full_name # <<>> THEN Append(contact_names, full_name)
             ELSE contact_names)

contacts_text(message) ==
    LET contacts == Get(message, "contacts", <<>>) IN
    CONTACTS_TEXT_HEAD \o str_int(Len(contacts)) \o CONTACTS_TEXT_TAIL

contacts_media(message) ==
    LET contacts == Get(message, "contacts", <<>>)
        contact_names == collect_contact_names(contacts, <<>>)
    IN  [type |-> "contacts",
         contacts |-> contacts,
         contact_names |-> IF contact_names # <<>>
                           THEN join(NAME_SEPARATOR, contact_names)
                           ELSE NO_NAMES]

\* message.get(<kind>, {}).get(...) on a null sub-object: AttributeError
traversal_raises(message, message_type) ==
    /\ message_type \in {"text", "sticker", "image", "audio", "document", "location"}
    /\ Get(message, message_type, <<>>) = None

\* the if/elif chain on message_type: the text and the media_data of the result
message_text(message, message_type) ==
    CASE message_type = "text" ->
           Get(Get(message, "text", <<>>), "body", <<>>)
      [] message_type = "sticker" -> STICKER_TEXT
      [] message_type = "image" -> IMAGE_TEXT
      [] message_type = "audio" -> AUDIO_TEXT
      [] message_type = "document" -> DOCUMENT_TEXT
      [] message_type = "location" -> LOCATION_TEXT
      [] message_type = "contacts" -> contacts_text(message)
      [] OTHER -> UNKNOWN_TEXT_HEAD \o str_of(message_type)

message_media(message, message_type) ==
    CASE message_type = "text" -> None
      [] message_type = "sticker" -> sticker_media(message)
      [] message_type = "image" -> image_media(message)
      [] message_type = "audio" -> audio_media(message)
      [] message_type = "document" -> document_media(message)
      [] message_type = "location" -> location_media(message)
      [] message_type = "contacts" -> contacts_media(message)
      [] OTHER -> None

extract_message_data(webhook_data) ==
    LET entry == Get(webhook_data, "entry", <<>>) IN
    IF entry = <<>> THEN None
    ELSE LET changes == Get(entry[1], "changes", <<>>) IN
    IF changes = <<>> THEN None
    ELSE LET value == Get(changes[1], "value", <<>>) IN
    IF value = None THEN None  \* AttributeError, caught
    ELSE LET messages == Get(value, "messages", <<>>) IN
    IF messages = <<>> THEN None
    ELSE LET message == messages[1]
             message_type == Get(message, "type", NoneStr)
         IN  IF traversal_raises(message, message_type) THEN None  \* caught
             ELSE [from |-> Get(message, "from", NoneStr),
                   message_id |-> Get(message, "id", NoneStr),
                   type |-> message_type,
                   media_data |-> message_media(message, message_type),
                   text |-> message_text(message, message_type)]
-----------------------------------------------------------------------------
(* download_media_file: the id to a URL, the URL to bytes, bytes to base64 *)

\* an Optional[str] that is a str
Str(s) == [str |-> s]

\* an exception leaving a block
Raised == [py_raised |-> TRUE]

\* one group of one to three bytes as four base64 characters
b64_group(bytes) ==
    LET n == Len(bytes)
        v == bytes[1] * 65536
             + (IF n >= 2 THEN bytes[2] ELSE 0) * 256
             + (IF n >= 3 THEN bytes[3] ELSE 0)
    IN  << B64_ALPHABET[((v \div 262144) % 64) + 1],
           B64_ALPHABET[((v \div 4096) % 64) + 1],
           IF n >= 2 THEN B64_ALPHABET[((v \div 64) % 64) + 1] ELSE "=",
           IF n >= 3 THEN B64_ALPHABET[(v % 64) + 1] ELSE "=" >>

\* base64.b64encode(content).decode('utf-8')
RECURSIVE b64encode(_)
b64encode(content) ==
    IF content = <<>> THEN <<>>
    ELSE IF Len(content) <= 3 THEN b64_group(content)
    ELSE b64_group(SubSeq(content, 1, 3))
         \o b64encode(SubSeq(content, 4, Len(content)))

\* a failed first GET tried a second time
download_media_file_retried(media_id, net) ==
    LET url_call == [fn |-> "download_media_file", http |-> "GET media url",
                     media_id |-> media_id]
        file_call == [fn |-> "download_media_file", http |-> "GET media file",
                      media_id |-> media_id]
    IN  IF net.url # "ok" THEN [value |-> None, calls |-> <<url_call, url_call>>]
        ELSE IF net.file # "ok"
             THEN [value |-> None, calls |-> <<url_call, file_call>>]
        ELSE [value |-> Str(b64encode(net.content)),
              calls |-> <<url_call, file_call>>]

\* net: what the two GETs meet.  Every exception is caught: the result is
\* None, or the encoded bytes.  calls: the requests made.
download_media_file(media_id, net) ==
    LET url_call == [fn |-> "download_media_file", http |-> "GET media url",
                     media_id |-> media_id]
        file_call == [fn |-> "download_media_file", http |-> "GET media file",
                      media_id |-> media_id]
    IN  IF net.url # "ok" THEN [value |-> None, calls |-> <<url_call>>]
        ELSE IF net.file # "ok"
             THEN [value |-> None, calls |-> <<url_call, file_call>>]
        ELSE [value |-> Str(b64encode(net.content)),
              calls |-> <<url_call, file_call>>]

\* `if file_base64:` of an Optional[str]
truthy_optional(x) == x # None /\ x.str # <<>>

-----------------------------------------------------------------------------
(* get_openai_response_with_media                                          *)

\* media_data.get("base64") is truthy
has_base64(media_data) ==
    "base64" \in DOMAIN media_data /\ media_data.base64 # <<>>

\* the image input chosen for every image, fetched or not
use_image_input_any_image(media_data) ==
    media_data # None /\ Get(media_data, "type", NoneStr) = "image"

\* the condition of the multi-part image input
use_image_input(media_data) ==
    /\ media_data # None
    /\ Get(media_data, "type", NoneStr) = "image"
    /\ has_base64(media_data)

\* what the else branch appends to enhanced_message for a media_data
enrichment(media_data) ==
    IF media_data = None THEN <<>>
    ELSE CASE media_data.type = "location" ->
                <<[about |-> "location",
                   latitude |-> Get(media_data, "latitude", None),
                   longitude |-> Get(media_data, "longitude", None),
                   name |-> Get(media_data, "name", <<>>),
                   address |-> Get(media_data, "address", <<>>)]>>
           [] media_data.type = "contacts" ->
                <<[about |-> "contacts",
                   count |-> Len(Get(media_data, "contacts", <<>>)),
                   contact_names |-> media_data.contact_names]>>
           [] media_data.type = "document" ->
                <<[about |-> "document",
                   filename |-> media_data.filename,
                   mime_type |-> Get(media_data, "mime_type", NoneStr),
                   caption |-> Get(media_data, "caption", <<>>)]>>
           [] media_data.type = "sticker" -> <<[about |-> "sticker"]>>
           [] media_data.type = "audio" -> <<[about |-> "audio"]>>
           [] OTHER -> <<>>

\* input_data; media_data['base64'] of a dict without the key is a KeyError
build_input(message, media_data) ==
    IF use_image_input(media_data)
    THEN IF "base64" \notin DOMAIN media_data THEN Raised
         ELSE [branch |-> "A",
               system |-> "vision persona",
               user |-> message,
               image_url |-> DATA_URL_HEAD \o media_data.base64]
    ELSE [branch |-> "B",
          system |-> "text preamble",
          user |-> message,
          appended |-> enrichment(media_data)]

\* the exception of the service call let through to the caller
ai_failure_reraised(made) == [raised |-> TRUE, reply |-> APOLOGY, calls |-> made]

\* the except block: the apology is the reply; made: the service calls made
ai_failure(made) == [raised |-> FALSE, reply |-> APOLOGY, calls |-> made]

\* ai: what openai_client.responses.create meets
get_openai_response_with_media(message, media_data, ai) ==
    LET input_data == build_input(message, media_data) IN
    IF input_data = Raised THEN ai_failure(<<>>)
    ELSE LET call == [fn |-> "responses.create", input |-> input_data] IN
         IF ai.ok
         THEN [raised |-> FALSE, reply |-> strip(ai.output_text), calls |-> <<call>>]
         ELSE ai_failure(<<call>>)

-----------------------------------------------------------------------------
(* The three senders                                                       *)

\* a sender that lets a connection error leave the function
send_result_uncaught(net) ==
    [raised |-> net = "request_error", value |-> net = "ok"]

\* the try block of a sender: True after a 2xx answer, False after an
\* HTTPError (raise_for_status) or any other RequestException
send_result(net) == [raised |-> FALSE, value |-> net = "ok"]

send_whatsapp_message(to_phone, message, net) ==
    LET payload == [messaging_product |-> "whatsapp",
                    to |-> to_phone,
                    type |-> "text",
                    text |-> [body |-> message]]
        r == send_result(net)
    IN  [raised |-> r.raised, value |-> r.value,
         calls |-> <<[fn |-> "send_whatsapp_message", payload |-> payload]>>]

\* {"id": media_id}, and the caption when a caption is allowed and not empty
media_object(media_id, caption, captioned) ==
    IF captioned /\ caption # <<>>
    THEN [id |-> media_id, caption |-> caption]
    ELSE [id |-> media_id]

send_whatsapp_media(to_phone, media_type, media_id, caption, net) ==
    LET envelope == [messaging_product |-> "whatsapp",
                     to |-> to_phone,
                     type |-> media_type]
        payload ==
            CASE media_type = "sticker" ->
                   envelope @@ ("sticker" :> media_object(media_id, caption, FALSE))
              [] media_type = "image" ->
                   envelope @@ ("image" :> media_object(media_id, caption, TRUE))
              [] media_type = "audio" ->
                   envelope @@ ("audio" :> media_object(media_id, caption, FALSE))
              [] media_type = "document" ->
                   envelope @@ ("document" :> media_object(media_id, caption, TRUE))
              [] OTHER -> None
        r == send_result(net)
    IN  IF payload = None
        THEN [raised |-> FALSE, value |-> FALSE, calls |-> <<>>]
        ELSE [raised |-> r.raised, value |-> r.value,
              calls |-> <<[fn |-> "send_whatsapp_media",
                           caption |-> caption,
                           payload |-> payload]>>]

send_whatsapp_location(to_phone, latitude, longitude, name, address, net) ==
    LET coords == [latitude |-> latitude, longitude |-> longitude]
        named == IF name # <<>> THEN coords @@ ("name" :> name) ELSE coords
        location == IF address # <<>>
                    THEN named @@ ("address" :> address) ELSE named
        payload == [messaging_product |-> "whatsapp",
                    to |-> to_phone,
                    type |-> "location",
                    location |-> location]
        r == send_result(net)
    IN  [raised |-> r.raised, value |-> r.value,
         calls |-> <<[fn |-> "send_whatsapp_location", payload |-> payload]>>]
-----------------------------------------------------------------------------
(* handle_webhook, one step per external call                              *)

\* src/app.py:561  the longest reply an image caption carries whole
CaptionLimit == 100

\* `if not message_data` skipped: every delivery is processed
no_message_never(data) == FALSE

\* `if not message_data`
no_message(data) == data = None

\* the download made for an audio as well
needs_download_audio_too(media_data) ==
    /\ media_data # None
    /\ TruthyStr(Get(media_data, "id", NoneStr))
    /\ Get(media_data, "type", NoneStr) \in {"image", "document", "sticker", "audio"}

\* the condition under which the media is downloaded first
needs_download(media_data) ==
    /\ media_data # None
    /\ TruthyStr(Get(media_data, "id", NoneStr))
    /\ Get(media_data, "type", NoneStr) \in {"image", "document", "sticker"}

\* the follow-up sent before the text reply
step_after_media_first(step, data) ==
    CASE step = "extract" ->
           IF needs_download(data.media_data) THEN "download" ELSE "compose"
      [] step = "download" -> "compose"
      [] step = "compose" -> "follow_up"
      [] step = "follow_up" -> "send_text"
      [] step = "send_text" -> "respond"

\* the order of the statements of the handler
step_after(step, data) ==
    CASE step = "extract" ->
           IF needs_download(data.media_data) THEN "download" ELSE "compose"
      [] step = "download" -> "compose"
      [] step = "compose" -> "send_text"
      [] step = "send_text" -> "follow_up"
      [] step = "follow_up" -> "respond"

\* the follow-up attempted for every attachment, with or without an id
has_follow_up_any(media_data) == media_data # None

\* `if media_data and media_data.get("id")`
has_follow_up(media_data) ==
    media_data # None /\ TruthyStr(Get(media_data, "id", NoneStr))

\* the reply as the caption, whatever its length
image_caption_whole(reply) == reply

\* the caption of the re-sent image
image_caption(reply) ==
    IF Len(reply) > CaptionLimit
    THEN IMAGE_CAPTION_HEAD \o slice_to(reply, CaptionLimit) \o ELLIPSIS
    ELSE reply

\* a JSON number n/10, or a str
Number(kind, tenths) == [num |-> kind, tenths |-> tenths]

\* float(x) raises ValueError on the str "N/A"
float_raises(x) == "str" \in DOMAIN x

\* float(x) of a number
to_float(x) == Number("float", x.tenths)

\* media_success = True and nothing sent
nothing_sent == [raised |-> FALSE, value |-> TRUE, calls |-> <<>>]

\* the block that re-sends the attachment
follow_up(user_phone, reply, media_data, net) ==
    IF ~has_follow_up(media_data) THEN nothing_sent
    ELSE LET media_type == Get(media_data, "type", NoneStr)
             media_id == Get(media_data, "id", NoneStr)
         IN  CASE media_type = "sticker" ->
                    send_whatsapp_media(user_phone, "sticker", media_id, <<>>, net)
               [] media_type = "image" ->
                    send_whatsapp_media(user_phone, "image", media_id,
                                        image_caption(reply), net)
               [] media_type = "audio" ->
                    send_whatsapp_media(user_phone, "audio", media_id, <<>>, net)
               [] media_type = "document" ->
                    send_whatsapp_media(
                        user_phone, "document", media_id,
                        DOCUMENT_CAPTION_HEAD
                            \o Get(media_data, "filename", FALLBACK_FILENAME),
                        net)
               [] media_type = "location" ->
                    LET latitude == Get(media_data, "latitude", Number("int", 0))
                        longitude == Get(media_data, "longitude", Number("int", 0))
                    IN  IF float_raises(latitude) \/ float_raises(longitude)
                        THEN [raised |-> TRUE, value |-> FALSE, calls |-> <<>>]
                        ELSE send_whatsapp_location(
                                 user_phone, to_float(latitude), to_float(longitude),
                                 Get(media_data, "name", <<>>),
                                 Get(media_data, "address", <<>>), net)
               [] OTHER -> nothing_sent

STATUS_OK == [status |-> "ok"]

\* the except block of the handler
status_error(e) == [status |-> "error", message |-> e]

-----------------------------------------------------------------------------
(* The deliveries and the answers of the two services                      *)

Phone == "593987654321"

Ana == <<"A", "n", "a">>
Lopez == <<"L", "o", "p", "e", "z">>

\* a message of a kind, with the sub-object of that kind when there is one
Message(kind) == [from |-> Phone, id |-> "wamid.1", type |-> kind]
MessageWith(kind, key, sub) == Message(kind) @@ (key :> sub)

ContactPool ==
    { [name |-> [first_name |-> Ana, last_name |-> Lopez]],
      [name |-> [first_name |-> <<>>, last_name |-> <<>>]],
      [name |-> [first_name |-> Ana]],
      [name |-> [first_name |-> <<" ">>, last_name |-> Lopez]],
      [phones |-> <<"+593">>] }

ContactLists ==
    UNION { [1..n -> ContactPool] : n \in 0..MaxContacts }

Messages ==
    { MessageWith("text", "text", [body |-> <<"H", "o", "l", "a">>]),
      Message("text"),
      MessageWith("text", "text", None),
      MessageWith("sticker", "sticker",
                  [id |-> "MEDIA1", mime_type |-> "image/webp", animated |-> TRUE]),
      MessageWith("sticker", "sticker", [mime_type |-> "image/webp"]),
      MessageWith("image", "image",
                  [id |-> "MEDIA2", mime_type |-> "image/jpeg",
                   caption |-> <<"h", "i">>]),
      MessageWith("image", "image", [id |-> "", mime_type |-> "image/jpeg"]),
      MessageWith("image", "image", None),
      Message("image"),
      MessageWith("audio", "audio", [id |-> "MEDIA3", mime_type |-> "audio/ogg"]),
      MessageWith("audio", "audio", [mime_type |-> "audio/ogg"]),
      MessageWith("document", "document",
                  [id |-> "MEDIA4", mime_type |-> "application/pdf",
                   filename |-> <<"a", ".", "p", "d", "f">>]),
      MessageWith("document", "document",
                  [id |-> "MEDIA5", mime_type |-> "application/pdf",
                   caption |-> <<"c", "v">>]),
      MessageWith("document", "document", [mime_type |-> "application/pdf"]),
      MessageWith("location", "location",
                  [latitude |-> Number("float", -2), longitude |-> Number("int", 78),
                   name |-> <<"Q">>, address |-> <<"A", "v">>]),
      MessageWith("location", "location",
                  [latitude |-> Number("int", 0), longitude |-> Number("float", 5)]),
      MessageWith("location", "location", [name |-> <<"Q">>]),
      Message("location"),
      Message("video"),
      MessageWith("reaction", "reaction", [emoji |-> "U+1F44D"]),
      [from |-> Phone, id |-> "wamid.2"] }
    \cup { MessageWith("contacts", "contacts", c) : c \in ContactLists }

\* the payload around a `value`
Envelope(value) ==
    [object |-> "whatsapp_business_account",
     entry |-> <<[id |-> "E1",
                  changes |-> <<[field |-> "messages", value |-> value]>>]>>]

\* payloads in which a level is absent, empty or null
Incomplete ==
    { [object |-> "whatsapp_business_account"],
      [object |-> "whatsapp_business_account", entry |-> <<>>],
      [object |-> "whatsapp_business_account", entry |-> <<[id |-> "E1"]>>],
      [object |-> "whatsapp_business_account",
       entry |-> <<[id |-> "E1", changes |-> <<>>]>>],
      [object |-> "whatsapp_business_account",
       entry |-> <<[id |-> "E1", changes |-> <<[field |-> "messages"]>>]>>],
      Envelope(<<>>),
      Envelope(None),
      Envelope([statuses |-> <<[status |-> "delivered"]>>]),
      Envelope([messages |-> <<>>]) }

Requests ==
    { [json_ok |-> FALSE] }
    \cup { [json_ok |-> TRUE, body |-> w] : w \in Incomplete }
    \cup { [json_ok |-> TRUE, body |-> Envelope([messages |-> <<m>>])] : m \in Messages }

\* the bytes of a media file of n bytes
FileBytes(n) == [i \in 1..n |-> (77 + 20 * i) % 256]

FetchOutcomes ==
    { [url |-> "error", file |-> "none", content |-> <<>>],
      [url |-> "missing", file |-> "none", content |-> <<>>],
      [url |-> "ok", file |-> "error", content |-> <<>>] }
    \cup { [url |-> "ok", file |-> "ok", content |-> FileBytes(n)] : n \in 0..MaxFileBytes }

\* a reply of n characters
Reply(n) == [i \in 1..n |-> Digits[(i % 10) + 1]]

AIOutcomes ==
    { [ok |-> FALSE, output_text |-> <<>>],
      [ok |-> TRUE, output_text |-> <<>>],
      [ok |-> TRUE, output_text |-> <<" ", "O", "K", "\n">>] }
    \cup { [ok |-> TRUE, output_text |-> Reply(n)] :
             n \in {CaptionLimit, CaptionLimit + 1, LongReplyLen} }

SendOutcomes == {"ok", "http_error", "request_error"}

-----------------------------------------------------------------------------
(* The state machine                                                       *)

Init ==
    /\ pc = "idle"
    /\ request = None
    /\ message_data = None
    /\ ai_response = <<>>
    /\ text_success = FALSE
    /\ media_success = TRUE
    /\ response = None
    /\ calls = <<>>

\* a delivery arrives
Receive ==
    /\ pc = "idle"
    /\ \E r \in Requests : request' = r
    /\ pc' = "extract"
    /\ UNCHANGED <<message_data, ai_response, text_success, media_success,
                   response, calls>>

\* request.json(), extract_message_data, and the return when there is no message
Extract ==
    /\ pc = "extract"
    /\ IF ~request.json_ok
       THEN /\ response' = status_error("JSONDecodeError")
            /\ pc' = "done"
            /\ UNCHANGED message_data
       ELSE LET data == extract_message_data(request.body) IN
            /\ message_data' = data
            /\ IF no_message(data)
               THEN response' = STATUS_OK /\ pc' = "done"
               ELSE IF data = None  \* message_data["from"] of None
               THEN response' = status_error("TypeError") /\ pc' = "done"
               ELSE response' = response /\ pc' = step_after("extract", data)
    /\ UNCHANGED <<request, ai_response, text_success, media_success, calls>>

\* download_media_file and media_data["base64"]
Download ==
    /\ pc = "download"
    /\ \E net \in FetchOutcomes :
         LET media_data == message_data.media_data
             r == download_media_file(media_data.id, net)
         IN  /\ calls' = calls \o r.calls
             /\ message_data' =
                  IF truthy_optional(r.value)
                  THEN [message_data EXCEPT
                          !.media_data = media_data @@ ("base64" :> r.value.str)]
                  ELSE message_data
    /\ pc' = step_after("download", message_data)
    /\ UNCHANGED <<request, ai_response, text_success, media_success, response>>

\* get_openai_response_with_media
Compose ==
    /\ pc = "compose"
    /\ \E ai \in AIOutcomes :
         LET r == get_openai_response_with_media(
                      message_data.text, message_data.media_data, ai)
         IN  /\ calls' = calls \o r.calls
             /\ IF r.raised
                THEN /\ response' = status_error("APIError")
                     /\ pc' = "done"
                     /\ UNCHANGED ai_response
                ELSE /\ ai_response' = r.reply
                     /\ pc' = step_after("compose", message_data)
                     /\ UNCHANGED response
    /\ UNCHANGED <<request, message_data, text_success, media_success>>

\* send_whatsapp_message
SendText ==
    /\ pc = "send_text"
    /\ \E net \in SendOutcomes :
         LET r == send_whatsapp_message(message_data.from, ai_response, net) IN
         /\ calls' = calls \o r.calls
         /\ IF r.raised
            THEN /\ response' = status_error("ConnectionError")
                 /\ pc' = "done"
                 /\ UNCHANGED text_success
            ELSE /\ text_success' = r.value
                 /\ pc' = step_after("send_text", message_data)
                 /\ UNCHANGED response
    /\ UNCHANGED <<request, message_data, ai_response, media_success>>

\* the re-send of the attachment
FollowUp ==
    /\ pc = "follow_up"
    /\ \E net \in SendOutcomes :
         LET r == follow_up(message_data.from, ai_response,
                            message_data.media_data, net)
         IN  /\ calls' = calls \o r.calls
             /\ IF r.raised
                THEN /\ response' = status_error("Exception")
                     /\ pc' = "done"
                     /\ UNCHANGED media_success
                ELSE /\ media_success' = r.value
                     /\ pc' = step_after("follow_up", message_data)
                     /\ UNCHANGED response
    /\ UNCHANGED <<request, message_data, ai_response, text_success>>

\* the log of the outcome and the return of the handler
Respond ==
    /\ pc = "respond"
    /\ response' = STATUS_OK
    /\ pc' = "done"
    /\ UNCHANGED <<request, message_data, ai_response, text_success,
                   media_success, calls>>

\* nothing outlives a delivery
NextDelivery ==
    /\ pc = "done"
    /\ pc' = "idle"
    /\ request' = None
    /\ message_data' = None
    /\ ai_response' = <<>>
    /\ text_success' = FALSE
    /\ media_success' = TRUE
    /\ response' = None
    /\ calls' = <<>>

Next ==
    \/ Receive
    \/ Extract
    \/ Download
    \/ Compose
    \/ SendText
    \/ FollowUp
    \/ Respond
    \/ NextDelivery

Spec == Init /\ [][Next]_vars

-----------------------------------------------------------------------------
(* What the claims speak of                                                *)

\* the places in the log of the calls of a function
CallsOf(fn) == {i \in DOMAIN calls : calls[i].fn = fn}

TextSends == CallsOf("send_whatsapp_message")

FollowUps == CallsOf("send_whatsapp_media") \cup CallsOf("send_whatsapp_location")

\* the handler has returned and the delivery held a message
Handled == pc = "done" /\ message_data # None

MediaKinds == {"sticker", "image", "audio", "document"}

AttachmentKinds == MediaKinds \cup {"location", "contacts"}

\* the id of an attachment, NoneStr when it has none
IdOf(media_data) == IF "id" \in DOMAIN media_data THEN media_data.id ELSE NoneStr

\* the attachment is one of the four media kinds and names its media
HasMediaId ==
    /\ message_data.media_data # None
    /\ message_data.type \in MediaKinds
    /\ IdOf(message_data.media_data) \notin {NoneStr, ""}

-----------------------------------------------------------------------------
\* C1: a delivery that yields a message gets exactly one text send, to the
\* sender, and no follow-up send is made before that text send, whatever the
\* media fetch and the AI call met.
C1_TextSendFirst ==
    /\ Cardinality(TextSends) <= 1
    /\ \A i \in FollowUps : \E j \in TextSends : j < i
    /\ Handled =>
         /\ Cardinality(TextSends) = 1
         /\ \A j \in TextSends :
              /\ calls[j].payload.to = message_data.from
              /\ calls[j].payload.text.body = ai_response

\* an image whose fetch failed and whose AI call failed: text, then image
C1_Witness ==
    /\ Handled
    /\ message_data.type = "image"
    /\ CallsOf("download_media_file") # {}
    /\ "base64" \notin DOMAIN message_data.media_data
    /\ ai_response = APOLOGY
    /\ FollowUps # {}

\* C2, as stated: an attachment of a media kind gets exactly one follow-up send
\* of its kind; contacts, unknown kinds and text get none.
C2_Original ==
    Handled =>
      /\ (message_data.media_data # None /\ message_data.type \in MediaKinds) =>
            /\ Cardinality(FollowUps) = 1
            /\ \A i \in FollowUps : calls[i].payload.type = message_data.type
      /\ message_data.type \notin MediaKinds \cup {"location"} => FollowUps = {}

\* C2, amended: a sticker, image, audio or document attachment with a non-empty
\* id gets exactly one follow-up send, by send_whatsapp_media with its kind and
\* its id; such an attachment without an id, and contacts, unknown kinds and
\* text, get none.
C2_FollowUpMatchesKind ==
    /\ Cardinality(FollowUps) <= 1
    /\ Handled =>
         /\ HasMediaId =>
              /\ Cardinality(FollowUps) = 1
              /\ \A i \in FollowUps :
                   /\ calls[i].fn = "send_whatsapp_media"
                   /\ calls[i].payload.type = message_data.type
                   /\ calls[i].payload[message_data.type].id
                        = message_data.media_data.id
         /\ (message_data.type \in MediaKinds /\ ~HasMediaId) => FollowUps = {}
         /\ message_data.type \notin MediaKinds \cup {"location"} => FollowUps = {}

\* an audio attachment re-sent by its id
C2_Witness ==
    /\ Handled
    /\ message_data.type = "audio"
    /\ HasMediaId
    /\ \E i \in FollowUps : calls[i].payload.type = "audio"

\* the float a coordinate is cast to, zero when the message has none
CastCoordinate(location, key) ==
    IF key \in DOMAIN location
    THEN [num |-> "float", tenths |-> location[key].tenths]
    ELSE [num |-> "float", tenths |-> 0]

\* the first message of a delivery that holds one
InboundMessage == request.body.entry[1].changes[1].value.messages[1]

\* C3: a location message is re-sent after the text reply, by one
\* send_whatsapp_location call with the latitude and longitude cast to float
\* (zero if missing).
C3_LocationResent ==
    (Handled /\ message_data.type = "location") =>
        LET location == IF "location" \in DOMAIN InboundMessage
                        THEN InboundMessage.location ELSE <<>>
            sent == CallsOf("send_whatsapp_location")
        IN  /\ Cardinality(sent) = 1
            /\ \A i \in sent :
                 /\ \E j \in TextSends : j < i
                 /\ calls[i].payload.location.latitude
                      = CastCoordinate(location, "latitude")
                 /\ calls[i].payload.location.longitude
                      = CastCoordinate(location, "longitude")

\* the image follow-ups in the log
ImageSends == {i \in CallsOf("send_whatsapp_media") : calls[i].payload.type = "image"}

\* the first n characters of a text
FirstChars(text, n) == [i \in 1..n |-> text[i]]

\* C4, as stated: the caption of the re-sent image is the first 100 characters
\* of the reply and the ellipsis when the reply is longer than 100 characters,
\* and the reply otherwise.
C4_Original ==
    \A i \in ImageSends :
        calls[i].caption =
            IF Len(ai_response) > CaptionLimit
            THEN FirstChars(ai_response, CaptionLimit) \o ELLIPSIS
            ELSE ai_response

\* C4, amended: the caption of the re-sent image is the fixed head
\* "Recibi esta imagen. ", the first 100 characters of the reply and the
\* ellipsis when the reply is longer than 100 characters, and the reply
\* otherwise; the payload carries the caption when it is not empty.
C4_ImageCaption ==
    \A i \in ImageSends :
        /\ calls[i].caption =
             IF Len(ai_response) > CaptionLimit
             THEN IMAGE_CAPTION_HEAD \o FirstChars(ai_response, CaptionLimit)
                  \o ELLIPSIS
             ELSE ai_response
        /\ IF calls[i].caption = <<>>
           THEN "caption" \notin DOMAIN calls[i].payload.image
           ELSE calls[i].payload.image.caption = calls[i].caption

\* an image re-sent with a reply longer than the limit
C4_Witness ==
    /\ ImageSends # {}
    /\ Len(ai_response) > CaptionLimit
    /\ \A i \in ImageSends :
         Len(calls[i].caption)
           = Len(IMAGE_CAPTION_HEAD) + CaptionLimit + Len(ELLIPSIS)

\* a level of the payload is absent or empty
LevelMissing(w) ==
    \/ "entry" \notin DOMAIN w
    \/ w.entry = <<>>
    \/ "changes" \notin DOMAIN w.entry[1]
    \/ w.entry[1].changes = <<>>
    \/ "value" \notin DOMAIN w.entry[1].changes[1]
    \/ w.entry[1].changes[1].value = <<>>
    \/ "messages" \notin DOMAIN w.entry[1].changes[1].value
    \/ w.entry[1].changes[1].value.messages = <<>>

\* C5: a delivery in which entry, changes, value or messages is absent or empty
\* yields no message, is answered {"status": "ok"} and makes no outbound call.
C5_NoMessageNoCalls ==
    (pc \notin {"idle", "extract"} /\ request.json_ok /\ LevelMissing(request.body)) =>
        /\ pc = "done"
        /\ message_data = None
        /\ response = STATUS_OK
        /\ calls = <<>>

\* a delivery with an empty messages list, answered
C5_Witness ==
    /\ pc = "done"
    /\ request.json_ok
    /\ "entry" \in DOMAIN request.body
    /\ request.body.entry # <<>>
    /\ "changes" \in DOMAIN request.body.entry[1]
    /\ request.body.entry[1].changes # <<>>
    /\ "value" \in DOMAIN request.body.entry[1].changes[1]
    /\ request.body.entry[1].changes[1].value = [messages |-> <<>>]
    /\ response = STATUS_OK

\* C6: the two outbound legs are independent: the follow-up of an attachment
\* is attempted when the text send failed, the text send stays made when the
\* follow-up fails, and the handler completes with {"status": "ok"}.
C6_IndependentLegs ==
    Handled =>
      /\ Cardinality(TextSends) = 1
      /\ HasMediaId => Cardinality(FollowUps) = 1
      /\ response = STATUS_OK

\* both legs failed, both were attempted
C6_Witness ==
    /\ Handled
    /\ ~text_success
    /\ ~media_success
    /\ TextSends # {}
    /\ FollowUps # {}
    /\ response = STATUS_OK

\* C7: whatever the media fetch, the AI call, the text send and the follow-up
\* send met, the handler answers {"status": "ok"}: no failure of theirs reaches
\* the inbound response.
C7_AlwaysOk ==
    (pc = "done" /\ request.json_ok) => response = STATUS_OK

\* the media fetch, the AI call and both sends failed, and the answer is ok
C7_Witness ==
    /\ Handled
    /\ message_data.type = "document"
    /\ CallsOf("download_media_file") # {}
    /\ "base64" \notin DOMAIN message_data.media_data
    /\ CallsOf("responses.create") # {}
    /\ ai_response = APOLOGY
    /\ ~text_success
    /\ ~media_success
    /\ response = STATUS_OK

\* the composer has returned
Composed ==
    message_data # None /\ pc \in {"send_text", "follow_up", "respond", "done"}

\* an image attachment whose base64 bytes are there
ImageBytesAvailable ==
    /\ message_data.media_data # None
    /\ message_data.media_data.type = "image"
    /\ "base64" \in DOMAIN message_data.media_data
    /\ message_data.media_data.base64 # <<>>

\* C8: the composer uses the multi-part image input exactly when the attachment
\* is an image whose base64 bytes are available; otherwise (an image whose
\* fetch failed among them) it uses the single text input; it calls the AI
\* service once in both cases and returns a reply without raising.
C8_ImageInputIffBytes ==
    Composed =>
      /\ Cardinality(CallsOf("responses.create")) = 1
      /\ \A i \in CallsOf("responses.create") :
           /\ calls[i].input.branch \in {"A", "B"}
           /\ calls[i].input.branch = "A" <=> ImageBytesAvailable
      /\ response # status_error("APIError")

\* an image whose fetch failed, composed on the text input
C8_Witness ==
    /\ Composed
    /\ message_data.type = "image"
    /\ CallsOf("download_media_file") # {}
    /\ "base64" \notin DOMAIN message_data.media_data
    /\ \E i \in CallsOf("responses.create") : calls[i].input.branch = "B"

\* C9: in every result of extract_message_data a media_data that is present
\* carries the type of the message, and there is none when the type is text or
\* outside sticker, image, audio, document, location, contacts.
C9_AttachmentTagMatches ==
    message_data # None =>
      /\ message_data.media_data # None =>
           message_data.media_data.type = message_data.type
      /\ message_data.type \notin AttachmentKinds => message_data.media_data = None

\* an audio message normalised with its attachment
C9_Witness ==
    /\ message_data # None
    /\ message_data.type = "audio"
    /\ message_data.media_data # None
    /\ message_data.media_data.type = "audio"

\* the places of a text that hold no whitespace
Inked(text) == {k \in 1..Len(text) : text[k] \notin Whitespace}

\* a text without its leading and trailing whitespace
Trimmed(text) ==
    IF Inked(text) = {} THEN <<>>
    ELSE LET lo == CHOOSE k \in Inked(text) : \A m \in Inked(text) : k <= m
             hi == CHOOSE k \in Inked(text) : \A m \in Inked(text) : m <= k
         IN  [k \in 1..(hi - lo + 1) |-> text[lo + k - 1]]

\* "first_name last_name" of a contact, trimmed
TrimmedName(contact) ==
    LET name == IF "name" \in DOMAIN contact THEN contact.name ELSE <<>>
        first == IF "first_name" \in DOMAIN name THEN name.first_name ELSE <<>>
        last == IF "last_name" \in DOMAIN name THEN name.last_name ELSE <<>>
    IN  Trimmed(first \o <<" ">> \o last)

\* the names of the first n contacts that have one, in order, comma-joined
RECURSIVE NamesUpTo(_, _)
NamesUpTo(contacts, n) ==
    IF n = 0 THEN <<>>
    ELSE LET before == NamesUpTo(contacts, n - 1)
             this == TrimmedName(contacts[n])
         IN  IF this = <<>> THEN before
             ELSE IF before = <<>> THEN this
             ELSE before \o <<",", " ">> \o this

\* C10: for a contacts message contact_names is the comma-joined list, in
\* contact order, of the trimmed "first_name last_name" of the contacts whose
\* name is not empty, and the "Sin nombres" sentinel when there is none; the
\* text reports the number of all contacts.
C10_ContactNames ==
    (message_data # None /\ message_data.type = "contacts") =>
        LET contacts == InboundMessage.contacts
            names == NamesUpTo(contacts, Len(contacts))
        IN  /\ message_data.media_data.contact_names =
                 IF names = <<>> THEN NO_NAMES ELSE names
            /\ message_data.text =
                 CONTACTS_TEXT_HEAD \o <<Digits[Len(contacts) + 1]>>
                 \o CONTACTS_TEXT_TAIL

\* Ana Lopez and a contact without a name: "Ana Lopez", 2 contacts
C10_Witness ==
    /\ message_data # None
    /\ message_data.type = "contacts"
    /\ InboundMessage.contacts =
         << [name |-> [first_name |-> Ana, last_name |-> Lopez]],
            [name |-> [first_name |-> <<>>, last_name |-> <<>>]] >>
    /\ message_data.media_data.contact_names = Ana \o <<" ">> \o Lopez
    /\ message_data.text[21] = "2"

-----------------------------------------------------------------------------
(* verify_webhook: GET /webhook                                            *)

\* src/app.py:34  os.getenv("VERIFY_TOKEN"), required at startup
VERIFY_TOKEN == "s3cret"

\* src/app.py:499 (a character outside ASCII is written as its code point, U+xxxx)
VERIFICATION_FAILED ==
    <<"V", "e", "r", "i", "f", "i", "c", "a", "c", "i", "U+00F3", "n", " ", "f", "a", "l", "l", "U+00F3">>

\* the three query parameters, each declared by Query(alias=...) with no default
QueryNames == {"hub.mode", "hub.challenge", "hub.verify_token"}

\* the token alone decides, the mode is not looked at
verified_by_token_alone(hub_mode, hub_verify_token) ==
    hub_verify_token = VERIFY_TOKEN

\* the condition of the handler
verified(hub_mode, hub_verify_token) ==
    hub_mode = "subscribe" /\ hub_verify_token = VERIFY_TOKEN

\* the handler: the challenge as plain text, or HTTPException(403)
verify_webhook(hub_mode, hub_challenge, hub_verify_token) ==
    IF verified(hub_mode, hub_verify_token)
    THEN [status_code |-> 200, media_type |-> "text/plain", body |-> hub_challenge]
    ELSE [status_code |-> 403, detail |-> VERIFICATION_FAILED]

\* the route: a request without one of the required parameters is answered
\* by the framework and the handler is not run
get_webhook(query) ==
    IF QueryNames \subseteq DOMAIN query
    THEN verify_webhook(query["hub.mode"], query["hub.challenge"],
                        query["hub.verify_token"])
    ELSE [status_code |-> 422, missing |-> QueryNames \ DOMAIN query]

\* a query parameter, absent when its value is NoneStr
Param(name, v) == IF v = NoneStr THEN <<>> ELSE (name :> v)

Modes == {"subscribe", "Subscribe", "unsubscribe", "", NoneStr}

Challenges == {"1158201444", "0", "", "subscribe", NoneStr}

Tokens == {VERIFY_TOKEN, "S3CRET", "s3cre", "s3cret ", "", NoneStr}

GetRequests ==
    { [method |-> "GET",
       query |-> Param("hub.mode", m) @@ Param("hub.challenge", c)
                 @@ Param("hub.verify_token", t)] :
        m \in Modes, c \in Challenges, t \in Tokens }

\* a verification request arrives
ReceiveGet ==
    /\ pc = "idle"
    /\ \E r \in GetRequests : request' = r
    /\ pc' = "verify"
    /\ UNCHANGED <<message_data, ai_response, text_success, media_success,
                   response, calls>>

\* the route answers it
VerifyWebhook ==
    /\ pc = "verify"
    /\ response' = get_webhook(request.query)
    /\ pc' = "done"
    /\ UNCHANGED <<request, message_data, ai_response, text_success,
                   media_success, calls>>

VerifyNext ==
    \/ ReceiveGet
    \/ VerifyWebhook
    \/ NextDelivery

VerifySpec == Init /\ [][VerifyNext]_vars

\* the request carries the three query parameters
FullQuery == QueryNames \subseteq DOMAIN request.query

\* the answer is the challenge of the request, with a success status
ChallengeEchoed ==
    /\ response.status_code = 200
    /\ response.body = request.query["hub.challenge"]

\* C11: GET /webhook with its three parameters answers the literal
\* hub.challenge with a success status exactly when hub.mode is "subscribe" and
\* hub.verify_token equals the configured token; with a wrong token the answer
\* is 403 whatever the mode.
C11_ChallengeIffVerified ==
    (pc = "done" /\ FullQuery) =>
        /\ ChallengeEchoed <=>
             (/\ request.query["hub.mode"] = "subscribe"
              /\ request.query["hub.verify_token"] = VERIFY_TOKEN)
        /\ request.query["hub.verify_token"] # VERIFY_TOKEN =>
             response.status_code = 403
        /\ response.status_code \in {200, 403}

\* a subscription with the right token, answered with its challenge
C11_Witness ==
    /\ pc = "done"
    /\ FullQuery
    /\ request.query["hub.mode"] = "subscribe"
    /\ request.query["hub.verify_token"] = VERIFY_TOKEN
    /\ request.query["hub.challenge"] = "1158201444"
    /\ response = [status_code |-> 200, media_type |-> "text/plain",
                   body |-> "1158201444"]

-----------------------------------------------------------------------------
\* the requests of download_media_file in the log, by the GET they make
MediaGets(http) == {i \in CallsOf("download_media_file") : calls[i].http = http}

AICalls == CallsOf("responses.create")

\* C12: within one delivery no external call is made twice: at most one GET of
\* the media URL and one GET of the media file, one AI call, one text send and
\* one follow-up send, also when they fail; a failure leaves its None or False
\* and every later step of the pipeline is still made.
C12_NoRetries ==
    /\ Cardinality(MediaGets("GET media url")) <= 1
    /\ Cardinality(MediaGets("GET media file")) <= 1
    /\ Cardinality(AICalls) <= 1
    /\ Cardinality(TextSends) <= 1
    /\ Cardinality(FollowUps) <= 1
    /\ Handled =>
         /\ Cardinality(AICalls) = 1
         /\ Cardinality(TextSends) = 1
         /\ HasMediaId => Cardinality(FollowUps) = 1
         /\ ~text_success => response = STATUS_OK
         /\ ~media_success => response = STATUS_OK

\* an image whose file GET, AI call, text send and follow-up send all failed:
\* each was made once
C12_Witness ==
    /\ Handled
    /\ message_data.type = "image"
    /\ Cardinality(MediaGets("GET media url")) = 1
    /\ Cardinality(MediaGets("GET media file")) = 1
    /\ "base64" \notin DOMAIN message_data.media_data
    /\ Cardinality(AICalls) = 1
    /\ ai_response = APOLOGY
    /\ Cardinality(TextSends) = 1
    /\ ~text_success
    /\ Cardinality(FollowUps) = 1
    /\ ~media_success

\* C13: the media fetch is made only for an attachment with a non-empty id of
\* kind image, document or sticker, and for that id; the base64 field is set
\* only when the file GET was made and gave bytes; an audio attachment with an
\* id is re-sent by that id and never carries base64.
C13_FetchOnlyForImageDocumentSticker ==
    /\ CallsOf("download_media_file") # {} =>
         /\ message_data # None
         /\ message_data.media_data # None
         /\ message_data.type \in {"image", "document", "sticker"}
         /\ IdOf(message_data.media_data) \notin {NoneStr, ""}
         /\ \A i \in CallsOf("download_media_file") :
              calls[i].media_id = message_data.media_data.id
    /\ (message_data # None /\ message_data.media_data # None
        /\ "base64" \in DOMAIN message_data.media_data) =>
         /\ MediaGets("GET media file") # {}
         /\ message_data.media_data.base64 # <<>>
         /\ Len(message_data.media_data.base64) % 4 = 0
    /\ (Handled /\ message_data.type = "audio" /\ HasMediaId) =>
         /\ "base64" \notin DOMAIN message_data.media_data
         /\ \A i \in FollowUps :
              calls[i].payload.audio.id = message_data.media_data.id

\* an audio with an id: no fetch, no base64, re-sent by its id
C13_Witness ==
    /\ Handled
    /\ message_data.type = "audio"
    /\ HasMediaId
    /\ CallsOf("download_media_file") = {}
    /\ "base64" \notin DOMAIN message_data.media_data
    /\ \E i \in FollowUps : calls[i].payload.audio.id = "MEDIA3"

====
